---- MODULE Spec2Model ----
(***************************************************************************)
(* Model of app.py: the TerminalSimulation class (strategy resolution,     *)
(* round engine, batch run loop) and the Streamlit session that drives it  *)
(* (batch button, interactive step-by-step mode, comparison ledger).       *)
(*                                                                         *)
(* Gains are Python floats once a 0.5 or 1.1 multiplier has been applied;  *)
(* they are kept here as fixed-point numbers in tenths of a TEU, which     *)
(* represents every product payoff * 0.5 * 1.1 exactly.  Volumes and net   *)
(* gains are Python ints and are kept in whole TEUs.                       *)
(***************************************************************************)
EXTENDS Integers, Sequences, FiniteSets, TLC

\* ------------------------------------------------------------------ bounds
MaxRounds == 2
MaxClicks == 3
MaxRuns == 2
MaxCalls == 2
MaxChanges == 1
MaxRoundCalls == 1

\* --------------------------------------------------------- program values
Moves == {"Cooperate", "Defect"}

None == "None"

NoDraw == "NoDraw"

StrategyChoices ==
  {"TitForTat - Cooperate", "TFT - Defect", "AlwaysCooperate", "AlwaysDefect", "Random"}

ValueError == "ValueError"

a_max_capacity == 60000

b_max_capacity == 75000

coastal_impact_per_round == -200

congestion_impact_per_round == -300

NoiseMax == 500

Scale == 10

\* ------------------------------------------------------------ arithmetic
Max2(x, y) == IF x >= y THEN x ELSE y

Min2(x, y) == IF x <= y THEN x ELSE y

\* A Python int as a float (fixed-point tenths).
ToFloat(n) == n * Scale

\* Python int(): truncation toward zero of a float.
PyInt(t) == IF t >= 0 THEN t \div Scale ELSE -((-t) \div Scale)

\* x *= 0.5 on a float
MulHalf(t) == IF t >= 0 THEN (t * 5) \div 10 ELSE -(((-t) * 5) \div 10)

\* x *= 1.1 on a float
MulPooling(t) == IF t >= 0 THEN (t * 11) \div 10 ELSE -(((-t) * 11) \div 10)

\* ------------------------------------------------------- TerminalSimulation
payoffs_Transposed(a_move, b_move) ==
  CASE a_move = "Cooperate" /\ b_move = "Cooperate" -> <<2500, 1000>>
    [] a_move = "Cooperate" /\ b_move = "Defect" -> <<10000, -5000>>
    [] a_move = "Defect" /\ b_move = "Cooperate" -> <<-5000, 10000>>
    [] a_move = "Defect" /\ b_move = "Defect" -> <<-2000, -2000>>
    [] OTHER -> <<0, 0>>

payoffs(a_move, b_move) ==
  CASE a_move = "Cooperate" /\ b_move = "Cooperate" -> <<2500, 1000>>
    [] a_move = "Cooperate" /\ b_move = "Defect" -> <<-5000, 10000>>
    [] a_move = "Defect" /\ b_move = "Cooperate" -> <<10000, -5000>>
    [] a_move = "Defect" /\ b_move = "Defect" -> <<-2000, -2000>>
    [] OTHER -> <<0, 0>>

get_move_NoFirstRule(strategy, opponent_last_move, is_first, coin) ==
  CASE strategy = "AlwaysCooperate" -> "Cooperate"
    [] strategy = "AlwaysDefect" -> "Defect"
    [] strategy = "TitForTat - Cooperate" -> opponent_last_move
    [] strategy = "TFT - Defect" -> opponent_last_move
    [] strategy = "Random" -> coin
    [] OTHER -> "ValueError"

get_move_DefaultCooperate(strategy, opponent_last_move, is_first, coin) ==
  CASE strategy = "AlwaysDefect" -> "Defect"
    [] strategy = "TitForTat - Cooperate" ->
         IF is_first THEN "Cooperate" ELSE opponent_last_move
    [] strategy = "TFT - Defect" ->
         IF is_first THEN "Defect" ELSE opponent_last_move
    [] strategy = "Random" -> coin
    [] OTHER -> "Cooperate"

\* get_move: coin is the value random.choice returns when it is called.
get_move(strategy, opponent_last_move, is_first, coin) ==
  CASE strategy = "AlwaysCooperate" -> "Cooperate"
    [] strategy = "AlwaysDefect" -> "Defect"
    [] strategy = "TitForTat - Cooperate" ->
         IF is_first THEN "Cooperate" ELSE opponent_last_move
    [] strategy = "TFT - Defect" ->
         IF is_first THEN "Defect" ELSE opponent_last_move
    [] strategy = "Random" -> coin
    [] OTHER -> ValueError

\* The draws random.choice can return for a strategy (none unless Random).
CoinDraws(strategy) == IF strategy = "Random" THEN Moves ELSE {NoDraw}

\* The pairs (noise for A, noise for B) the two random.randint(-500, 500)
\* calls of a round return in the model: the two draws at opposite extremes.
NoiseDraws(apply_noise) ==
  IF apply_noise THEN {<<-NoiseMax, NoiseMax>>, <<NoiseMax, -NoiseMax>>} ELSE {<<0, 0>>}

\* Line 51-53: the Bertrand decay of one raw gain.
Bertrand(fl, gain) == IF fl.bertrand_mode THEN MulHalf(gain) ELSE gain

Pooling_AnyMoves(fl, a_move, b_move, gain) ==
  IF fl.berth_pooling THEN MulPooling(gain) ELSE gain

\* Lines 54-56: the pooling bonus of one raw gain.
Pooling(fl, a_move, b_move, gain) ==
  IF fl.berth_pooling /\ a_move = "Cooperate" /\ b_move = "Cooperate"
    THEN MulPooling(gain)
    ELSE gain

\* Lines 50-56: the raw gains (floats).
RawGains(a_move, b_move, fl) ==
  <<Pooling(fl, a_move, b_move, Bertrand(fl, ToFloat(payoffs(a_move, b_move)[1]))),
    Pooling(fl, a_move, b_move, Bertrand(fl, ToFloat(payoffs(a_move, b_move)[2])))>>

AAdjust(fl, noise_a) ==
  (IF fl.apply_noise THEN noise_a ELSE 0)
  + (IF ~fl.resolve_congestion THEN congestion_impact_per_round ELSE 0)
  + (IF ~fl.drop_coastal THEN coastal_impact_per_round ELSE 0)

BAdjust_WithPenalties(fl, noise_b) ==
  (IF fl.apply_noise THEN noise_b ELSE 0)
  + (IF ~fl.resolve_congestion THEN congestion_impact_per_round ELSE 0)
  + (IF ~fl.drop_coastal THEN coastal_impact_per_round ELSE 0)

BAdjust(fl, noise_b) == IF fl.apply_noise THEN noise_b ELSE 0

ClampA_NoCeiling(v) == Max2(v, 0)

ClampA(v) == Min2(Max2(v, 0), a_max_capacity)

ClampB(v) == Min2(Max2(v, 0), b_max_capacity)

UpdateVolumes_SpillAlways(a_volume, b_volume, a_move, b_move, raw, net_a_gain, net_b_gain) ==
  LET excess_a == Max2(0, (a_volume + net_a_gain) - a_max_capacity)
      spill == IF excess_a > 0 THEN PyInt(MulHalf(ToFloat(excess_a))) ELSE 0
  IN  [a_volume |-> ClampA(a_volume + net_a_gain),
       b_volume |-> ClampB(b_volume + spill + net_b_gain),
       raw_a_gain |-> raw[1], raw_b_gain |-> raw[2],
       net_a_gain |-> net_a_gain, net_b_gain |-> net_b_gain]

\* Lines 68-75: the volume updates, given the gains.
UpdateVolumes(a_volume, b_volume, a_move, b_move, raw, net_a_gain, net_b_gain) ==
  LET excess_a == Max2(0, (a_volume + net_a_gain) - a_max_capacity)
      spill == IF excess_a > 0 /\ a_move = "Cooperate" /\ b_move = "Cooperate"
                 THEN PyInt(MulHalf(ToFloat(excess_a)))
                 ELSE 0
  IN  [a_volume |-> ClampA(a_volume + net_a_gain),
       b_volume |-> ClampB(b_volume + spill + net_b_gain),
       raw_a_gain |-> raw[1], raw_b_gain |-> raw[2],
       net_a_gain |-> net_a_gain, net_b_gain |-> net_b_gain]

\* Lines 57-67: the net gains, given the raw gains.
NetGains(a_volume, b_volume, a_move, b_move, fl, noise_a, noise_b, raw) ==
  UpdateVolumes(a_volume, b_volume, a_move, b_move, raw,
                PyInt(raw[1] + ToFloat(AAdjust(fl, noise_a))),
                PyInt(raw[2] + ToFloat(BAdjust(fl, noise_b))))

\* simulate_round: the new volumes and the four returned gains.
simulate_round(a_volume, b_volume, a_move, b_move, fl, noise_a, noise_b) ==
  NetGains(a_volume, b_volume, a_move, b_move, fl, noise_a, noise_b,
           RawGains(a_move, b_move, fl))

RoundRecord_ZeroBased(r, a_move, b_move, res) ==
  [round |-> r - 1, a_move |-> a_move, b_move |-> b_move,
   raw_a_gain |-> res.raw_a_gain, raw_b_gain |-> res.raw_b_gain,
   net_a_gain |-> res.net_a_gain, net_b_gain |-> res.net_b_gain,
   a_volume |-> res.a_volume, b_volume |-> res.b_volume]

\* The dict appended to the history after a round.
RoundRecord(r, a_move, b_move, res) ==
  [round |-> r, a_move |-> a_move, b_move |-> b_move,
   raw_a_gain |-> res.raw_a_gain, raw_b_gain |-> res.raw_b_gain,
   net_a_gain |-> res.net_a_gain, net_b_gain |-> res.net_b_gain,
   a_volume |-> res.a_volume, b_volume |-> res.b_volume]

\* ------------------------------------------------------------- run loop
\* One iteration of the for loop of run_simulation on the loop state st;
\* d holds the random draws the iteration consumes.
BatchRound_RecordsOldVolumes(st, r, a_move, b_move, res) ==
  [a_volume |-> res.a_volume, b_volume |-> res.b_volume,
   history |-> Append(st.history,
                 RoundRecord(r + 1, a_move, b_move,
                             [res EXCEPT !.a_volume = st.a_volume,
                                         !.b_volume = st.b_volume])),
   a_last_move |-> a_move, b_last_move |-> b_move,
   raised |-> FALSE]

\* Lines 86-99: the round played with the two resolved moves.
BatchRound(st, r, a_move, b_move, res) ==
  [a_volume |-> res.a_volume, b_volume |-> res.b_volume,
   history |-> Append(st.history, RoundRecord(r + 1, a_move, b_move, res)),
   a_last_move |-> a_move, b_last_move |-> b_move,
   raised |-> FALSE]

BatchMoves(st, r, a_move, b_move, fl, d) ==
  IF a_move = ValueError \/ b_move = ValueError
    THEN [st EXCEPT !.raised = TRUE]
    ELSE BatchRound(st, r, a_move, b_move,
                    simulate_round(st.a_volume, st.b_volume, a_move, b_move, fl,
                                   d.noise_a, d.noise_b))

BatchStep_OwnLast(st, r, a_strategy, b_strategy, fl, d) ==
  BatchMoves(st, r,
             get_move(a_strategy, st.a_last_move, r = 0, d.coin_a),
             get_move(b_strategy, st.b_last_move, r = 0, d.coin_b),
             fl, d)

BatchStep(st, r, a_strategy, b_strategy, fl, d) ==
  BatchMoves(st, r,
             get_move(a_strategy, st.b_last_move, r = 0, d.coin_a),
             get_move(b_strategy, st.a_last_move, r = 0, d.coin_b),
             fl, d)

RECURSIVE BatchLoop(_, _, _, _, _, _, _)
BatchLoop(st, r, rounds, a_strategy, b_strategy, fl, draws) ==
  IF r >= rounds \/ st.raised
    THEN st
    ELSE BatchLoop(BatchStep(st, r, a_strategy, b_strategy, fl, draws[r + 1]),
                   r + 1, rounds, a_strategy, b_strategy, fl, draws)

\* run_simulation on object o: the object afterwards and whether it raised.
\* Line 100 (or the exception): the object as the loop leaves it.
BatchResult(o, end) ==
  [obj |-> [o EXCEPT !.a_volume = end.a_volume, !.b_volume = end.b_volume,
                     !.history = end.history],
   raised |-> end.raised]

run_simulation(o, fl, draws) ==
  BatchResult(o,
    BatchLoop([a_volume |-> o.a_volume, b_volume |-> o.b_volume,
               history |-> <<>>, a_last_move |-> None,
               b_last_move |-> None, raised |-> FALSE],
              0, o.rounds, o.a_strategy, o.b_strategy, fl, draws))

\* TerminalSimulation.__init__
NewSimulation(initial_a_volume, initial_b_volume, rounds) ==
  [a_volume |-> initial_a_volume, b_volume |-> initial_b_volume,
   rounds |-> rounds,
   a_strategy |-> "TitForTat - Cooperate", b_strategy |-> "TitForTat - Cooperate",
   history |-> <<>>]

set_strategies_Swapped(o, a_strat, b_strat) ==
  [o EXCEPT !.a_strategy = b_strat, !.b_strategy = a_strat]

set_strategies(o, a_strat, b_strat) ==
  [o EXCEPT !.a_strategy = a_strat, !.b_strategy = b_strat]

\* The draws one round consumes under the given strategies and flags.
RoundDraws(a_strategy, b_strategy, fl) ==
  {[coin_a |-> ca, coin_b |-> cb, noise_a |-> n[1], noise_b |-> n[2]] :
     ca \in CoinDraws(a_strategy), cb \in CoinDraws(b_strategy),
     n \in NoiseDraws(fl.apply_noise)}

\* -------------------------------------------------------------- widgets
Flags(rc, dc, an, bp, bm) ==
  [resolve_congestion |-> rc, drop_coastal |-> dc, apply_noise |-> an,
   berth_pooling |-> bp, bertrand_mode |-> bm]

\* The modifier settings a session rerun draws from: the defaults of the
\* Basic level, and a Master-level setting with every modifier switched on
\* and the Regulatory Clampdown scenario (noise) loaded.
FlagChoices ==
  {Flags(FALSE, FALSE, FALSE, FALSE, FALSE), Flags(TRUE, TRUE, TRUE, TRUE, TRUE)}

\* Values of the two number inputs (unconstrained in the app): A close to its
\* ceiling with B close to the floor, A close to the floor with B close to its
\* ceiling, and both outside their ranges.
InitialVolumes == {<<59000, 3000>>, <<3000, 74000>>, <<65000, -2000>>}

\* The rounds slider (1..20 in the app).
RoundChoices == 1..MaxRounds

\* The page's inputs as the user has set them for the session: the number
\* inputs, the rounds slider, the strategy selectors and the mode radio.
WidgetChoices ==
  [initial_a : {v[1] : v \in InitialVolumes}, initial_b : {v[2] : v \in InitialVolumes},
   rounds : RoundChoices, a_strat : StrategyChoices, b_strat : StrategyChoices,
   mode : {"Batch", "Interactive"}]

NoSim == [absent |-> TRUE]

\* The dict appended to st.session_state.runs.
LedgerEntry(a_strat, b_strat, final_a, final_b, initial_a, initial_b) ==
  [a_strategy |-> a_strat, b_strategy |-> b_strat,
   final_a |-> final_a, final_b |-> final_b,
   total_gain_a |-> final_a - initial_a, total_gain_b |-> final_b - initial_b,
   total_gain |-> (final_a + final_b) - (initial_a + initial_b)]

\* What a rerun renders in its Simulation tab.
Page(kind, table, final) == [kind |-> kind, table |-> table, final |-> final]

Blank == Page("nothing", <<>>, <<>>)

\* ---------------------------------------------------------------- state
VARIABLES
  widgets,        \* the number inputs, the slider, the strategy selectors, the mode
  sim,            \* st.session_state.sim (NoSim until the first interactive render)
  current_round,  \* st.session_state.current_round
  history,        \* st.session_state.history
  a_last_move,    \* st.session_state.a_last_move
  b_last_move,    \* st.session_state.b_last_move
  run_complete,   \* st.session_state.run_complete
  runs,           \* st.session_state.runs, the comparison ledger
  button,         \* the button whose click caused the last rerun
  shown,          \* what the last rerun rendered in the Simulation tab
  applied,        \* the mid-sim selections, if the last rerun applied them
  steps,          \* per round of the interactive run: flags, draws, strategies used
  clicks,         \* number of button clicks so far in the session
  eng,            \* a TerminalSimulation object used directly by a caller
  ret,            \* what the last method call on eng returned or raised
  runlog,         \* the run_simulation calls made on eng, with their results
  calls,          \* number of run_simulation or simulate_round calls made on eng
  changes         \* number of set_strategies calls made after construction

vars == <<widgets, sim, current_round, history, a_last_move, b_last_move,
          run_complete, runs, button, shown, applied, steps, clicks,
          eng, ret, runlog, calls, changes>>

engine == <<eng, ret, runlog, calls>>

session == <<sim, current_round, history, a_last_move, b_last_move, run_complete>>

NoReturn == [kind |-> "none"]

\* Before anything has run: no interactive run in the session, no object.
Idle ==
  /\ sim = NoSim
  /\ current_round = 0
  /\ history = <<>>
  /\ a_last_move = None
  /\ b_last_move = None
  /\ run_complete = FALSE
  /\ runs = <<>>
  /\ button = "none"
  /\ shown = Blank
  /\ applied = <<>>
  /\ steps = <<>>
  /\ clicks = 0
  /\ eng = NoSim
  /\ ret = NoReturn
  /\ runlog = <<>>
  /\ calls = 0
  /\ changes = 0

Init ==
  /\ widgets \in WidgetChoices
  /\ <<widgets.initial_a, widgets.initial_b>> \in InitialVolumes
  /\ Idle

\* A rerun of the script caused by a click on the named button.
Click(name, selection) ==
  /\ clicks < MaxClicks
  /\ clicks' = clicks + 1
  /\ button' = name
  /\ applied' = selection
  /\ changes' = IF selection = <<>> THEN changes ELSE changes + 1
  /\ UNCHANGED <<widgets, engine>>

Interactive == widgets.mode = "Interactive"


StartInteractive_KeepRound ==
  /\ sim' = set_strategies(
              NewSimulation(widgets.initial_a, widgets.initial_b, widgets.rounds),
              widgets.a_strat, widgets.b_strat)
  /\ current_round' = current_round
  /\ history' = <<>>
  /\ a_last_move' = None
  /\ b_last_move' = None
  /\ run_complete' = FALSE
  /\ steps' = <<>>

\* Lines 179-185: a fresh interactive run from the current widget values.
StartInteractive ==
  /\ sim' = set_strategies(
              NewSimulation(widgets.initial_a, widgets.initial_b, widgets.rounds),
              widgets.a_strat, widgets.b_strat)
  /\ current_round' = 0
  /\ history' = <<>>
  /\ a_last_move' = None
  /\ b_last_move' = None
  /\ run_complete' = FALSE
  /\ steps' = <<>>

\* First render of the interactive mode: 'sim' not in st.session_state.
FirstInteractiveRender ==
  /\ Interactive
  /\ sim = NoSim
  /\ button' = "none"
  /\ UNCHANGED <<widgets, clicks, applied, changes, engine>>
  /\ StartInteractive
  /\ shown' = Blank
  /\ UNCHANGED runs

\* "Reset Interactive Mode"
ResetInteractiveMode ==
  /\ Interactive
  /\ sim # NoSim
  /\ Click("Reset Interactive Mode", <<>>)
  /\ StartInteractive
  /\ shown' = Blank
  /\ UNCHANGED runs

\* "Apply Mid-Sim Changes": the button is rendered only while
\* allow_mid_change is checked and the run is not complete.
ApplyMidSimChanges ==
  /\ Interactive
  /\ sim # NoSim
  /\ ~run_complete
  /\ changes < MaxChanges
  /\ \E new_a_strat \in StrategyChoices, new_b_strat \in StrategyChoices :
       /\ Click("Apply Mid-Sim Changes", <<new_a_strat, new_b_strat>>)
       /\ sim' = set_strategies(sim, new_a_strat, new_b_strat)
  /\ shown' = Blank
  /\ UNCHANGED <<current_round, history, a_last_move, b_last_move, run_complete,
                 runs, steps>>

AdvanceAccepted_Always(complete, round, rounds) == TRUE

AdvanceAccepted_WrongComparison(complete, round, rounds) ==
  ~complete /\ round > rounds

\* Lines 195 and 198: the conditions under which a click advances the run.
AdvanceAccepted(complete, round, rounds) == ~complete /\ round < rounds

AdvanceRound_ForgetLast(s, round, a_move, b_move, res) ==
  [raised |-> FALSE,
   sim |-> [s EXCEPT !.a_volume = res.a_volume, !.b_volume = res.b_volume],
   record |-> RoundRecord(round + 1, a_move, b_move, res),
   a_last_move |-> None, b_last_move |-> None,
   current_round |-> round + 1]

\* Lines 202-216: the round played with the two resolved moves.
AdvanceRound(s, round, a_move, b_move, res) ==
  [raised |-> FALSE,
   sim |-> [s EXCEPT !.a_volume = res.a_volume, !.b_volume = res.b_volume],
   record |-> RoundRecord(round + 1, a_move, b_move, res),
   a_last_move |-> a_move, b_last_move |-> b_move,
   current_round |-> round + 1]

AdvanceMoves(s, round, a_move, b_move, fl, d) ==
  IF a_move = ValueError \/ b_move = ValueError
    THEN [raised |-> TRUE]
    ELSE AdvanceRound(s, round, a_move, b_move,
                      simulate_round(s.a_volume, s.b_volume, a_move, b_move, fl,
                                     d.noise_a, d.noise_b))

AdvanceStep_OwnLast(s, round, a_last, b_last, fl, d) ==
  AdvanceMoves(s, round,
               get_move(s.a_strategy, a_last, round = 0, d.coin_a),
               get_move(s.b_strategy, b_last, round = 0, d.coin_b),
               fl, d)

\* Lines 199-216: one interactive round on the session state.
AdvanceStep(s, round, a_last, b_last, fl, d) ==
  AdvanceMoves(s, round,
               get_move(s.a_strategy, b_last, round = 0, d.coin_a),
               get_move(s.b_strategy, a_last, round = 0, d.coin_b),
               fl, d)

\* "Advance Next Round"
AdvanceNextRound ==
  /\ Interactive
  /\ sim # NoSim
  /\ Click("Advance Next Round", <<>>)
  /\ IF ~AdvanceAccepted(run_complete, current_round, sim.rounds)
       THEN /\ shown' = Blank
            /\ UNCHANGED <<session, runs, steps>>
       ELSE \E fl \in FlagChoices :
            \E d \in RoundDraws(sim.a_strategy, sim.b_strategy, fl) :
            \E n \in {AdvanceStep(sim, current_round, a_last_move, b_last_move, fl, d)} :
              LET done == current_round + 1 = sim.rounds
              IN  IF n.raised
                    THEN /\ shown' = Page("exception", <<>>, <<>>)
                         /\ UNCHANGED <<session, runs, steps>>
                    ELSE /\ (done => Len(runs) < MaxRuns)
                         /\ sim' = n.sim
                         /\ history' = Append(history, n.record)
                         /\ a_last_move' = n.a_last_move
                         /\ b_last_move' = n.b_last_move
                         /\ current_round' = n.current_round
                         /\ steps' = Append(steps,
                                [flags |-> fl, draws |-> d,
                                 a_strategy |-> sim.a_strategy,
                                 b_strategy |-> sim.b_strategy])
                         /\ run_complete' = (done \/ run_complete)
                         /\ shown' = Page("history", history',
                                          IF done THEN <<n.sim.a_volume, n.sim.b_volume>>
                                                  ELSE <<>>)
                         /\ runs' = IF done
                                      THEN Append(runs,
                                             LedgerEntry(widgets.a_strat, widgets.b_strat,
                                                         n.sim.a_volume, n.sim.b_volume,
                                                         widgets.initial_a,
                                                         widgets.initial_b))
                                      ELSE runs

\* "Run Simulation" (batch mode), lines 153-175.
RunSimulation ==
  /\ ~Interactive
  /\ Len(runs) < MaxRuns
  /\ Click("Run Simulation", <<>>)
  /\ \E fl \in FlagChoices :
     \E draws \in [1..widgets.rounds ->
                     RoundDraws(widgets.a_strat, widgets.b_strat, fl)] :
     \E out \in {run_simulation(
                    set_strategies(
                      NewSimulation(widgets.initial_a, widgets.initial_b,
                                    widgets.rounds),
                      widgets.a_strat, widgets.b_strat),
                    fl, draws)} :
           IF out.raised
             THEN /\ shown' = Page("exception", <<>>, <<>>)
                  /\ UNCHANGED runs
             ELSE /\ shown' = Page("history", out.obj.history,
                                   <<out.obj.a_volume, out.obj.b_volume>>)
                  /\ runs' = Append(runs,
                               LedgerEntry(widgets.a_strat, widgets.b_strat,
                                           out.obj.a_volume, out.obj.b_volume,
                                           widgets.initial_a, widgets.initial_b))
  /\ UNCHANGED <<session, steps>>

ResetRuns_DropLast ==
  /\ Click("Reset Runs", <<>>)
  /\ runs' = IF runs = <<>> THEN runs ELSE SubSeq(runs, 1, Len(runs) - 1)
  /\ shown' = Blank
  /\ UNCHANGED <<session, steps>>

\* "Reset Runs"
ResetRuns ==
  /\ Click("Reset Runs", <<>>)
  /\ runs' = <<>>
  /\ shown' = Blank
  /\ UNCHANGED <<session, steps>>

Next ==
  \/ FirstInteractiveRender
  \/ ResetInteractiveMode
  \/ ApplyMidSimChanges
  \/ AdvanceNextRound
  \/ RunSimulation
  \/ ResetRuns

Spec == Init /\ [][Next]_vars

\* ------------------------------------------- the class used on its own
\* Arguments a direct caller of the class passes: the constructor takes any
\* numbers and set_strategies any string.
EngineVolumes == {<<50000, 20000>>, <<59000, 74000>>, <<3000, 3000>>, <<65000, -2000>>}

EngineRounds == 0..MaxRounds

EngineStrategies == StrategyChoices \cup {"Unknown"}

EngineFlags == FlagChoices \cup {Flags(TRUE, TRUE, FALSE, FALSE, FALSE)}

idle == <<widgets, session, runs, button, shown, applied, steps, clicks>>

\* sim = TerminalSimulation(initial_a_volume, initial_b_volume, rounds)
Construct ==
  /\ eng = NoSim
  /\ \E v \in EngineVolumes, rounds \in EngineRounds :
       eng' = NewSimulation(v[1], v[2], rounds)
  /\ ret' = NoReturn
  /\ UNCHANGED <<idle, runlog, calls, changes>>

\* sim.set_strategies(a_strat, b_strat)
SetStrategies ==
  /\ eng # NoSim
  /\ changes < MaxChanges
  /\ changes' = changes + 1
  /\ \E a_strat \in EngineStrategies, b_strat \in EngineStrategies :
       eng' = set_strategies(eng, a_strat, b_strat)
  /\ ret' = NoReturn
  /\ UNCHANGED <<idle, runlog, calls>>

\* sim.run_simulation(...)
CallRunSimulation ==
  /\ eng # NoSim
  /\ calls < MaxCalls
  /\ calls' = calls + 1
  /\ UNCHANGED <<idle, changes>>
  /\ \E fl \in EngineFlags :
     \E draws \in [1..eng.rounds -> RoundDraws(eng.a_strategy, eng.b_strategy, fl)] :
     \E out \in {run_simulation(eng, fl, draws)} :
           /\ eng' = out.obj
           /\ ret' = IF out.raised
                       THEN [kind |-> "raised"]
                       ELSE [kind |-> "returned", history |-> out.obj.history,
                             final_a |-> out.obj.a_volume,
                             final_b |-> out.obj.b_volume]
           /\ runlog' = Append(runlog,
                          [flags |-> fl, a_strategy |-> eng.a_strategy,
                           b_strategy |-> eng.b_strategy, rounds |-> eng.rounds,
                           before_a |-> eng.a_volume, before_b |-> eng.b_volume,
                           raised |-> out.raised, history |-> out.obj.history,
                           after_a |-> out.obj.a_volume,
                           after_b |-> out.obj.b_volume])

NextEngine ==
  \/ Construct
  \/ SetStrategies
  \/ CallRunSimulation

InitEngine ==
  /\ widgets = [initial_a |-> 50000, initial_b |-> 20000, rounds |-> MaxRounds,
                a_strat |-> "TitForTat - Cooperate",
                b_strat |-> "TitForTat - Cooperate", mode |-> "Batch"]
  /\ Idle

SpecEngine == InitEngine /\ [][NextEngine]_vars

\* ------------------------------------------- the round engine on its own
\* Every setting of the five modifier arguments of simulate_round.
AllFlags ==
  {Flags(rc, dc, an, bp, bm) : rc \in BOOLEAN, dc \in BOOLEAN, an \in BOOLEAN,
                               bp \in BOOLEAN, bm \in BOOLEAN}

\* sim.simulate_round(a_move, b_move, ...): the object's volumes are updated
\* and the four gains returned.
CallSimulateRound ==
  /\ eng # NoSim
  /\ calls < MaxRoundCalls
  /\ calls' = calls + 1
  /\ UNCHANGED <<idle, changes, runlog>>
  /\ \E a_move \in Moves, b_move \in Moves, fl \in AllFlags :
     \E n \in NoiseDraws(fl.apply_noise) :
     \E res \in {simulate_round(eng.a_volume, eng.b_volume, a_move, b_move, fl,
                                n[1], n[2])} :
       /\ eng' = [eng EXCEPT !.a_volume = res.a_volume, !.b_volume = res.b_volume]
       /\ ret' = [kind |-> "round", a_move |-> a_move, b_move |-> b_move,
                  flags |-> fl, noise_a |-> n[1], noise_b |-> n[2],
                  before_a |-> eng.a_volume, before_b |-> eng.b_volume,
                  raw_a_gain |-> res.raw_a_gain, raw_b_gain |-> res.raw_b_gain,
                  net_a_gain |-> res.net_a_gain, net_b_gain |-> res.net_b_gain,
                  after_a |-> res.a_volume, after_b |-> res.b_volume]

NextRound ==
  \/ Construct
  \/ CallSimulateRound

SpecRound == InitEngine /\ [][NextRound]_vars

\* ------------------------------------- the session with repeated advances
\* The page is loaded and the user keeps clicking Advance Next Round (or Run
\* Simulation in batch mode); no reset is clicked.  Streamlit reruns the
\* script on every click, so a click that is possible is eventually served.
NextLive ==
  \/ FirstInteractiveRender
  \/ AdvanceNextRound
  \/ RunSimulation

SpecLive == Init /\ [][NextLive]_vars /\ WF_vars(AdvanceNextRound)

\* ------------------------------------------------------------ properties
Last(s) == s[Len(s)]

InRange(r) ==
  /\ 0 <= r.a_volume /\ r.a_volume <= a_max_capacity
  /\ 0 <= r.b_volume /\ r.b_volume <= b_max_capacity

AdvanceClicked == clicks' = clicks + 1 /\ button' = "Advance Next Round"

ApplyClicked == clicks' = clicks + 1 /\ button' = "Apply Mid-Sim Changes"

StartedInteractive ==
  \/ sim = NoSim /\ sim' # NoSim
  \/ clicks' = clicks + 1 /\ button' = "Reset Interactive Mode"

AtEnd == sim # NoSim /\ current_round = sim.rounds

\* C1: after every completed round, stepwise or batch, both volumes lie
\* between 0 and the actor's capacity (60000 for A, 75000 for B): in every
\* recorded round, in the run's current volumes and in the final volumes shown.
C1_ClampInvariant ==
  /\ \A i \in 1..Len(history) : InRange(history[i])
  /\ (sim # NoSim /\ current_round >= 1) => InRange(sim)
  /\ \A i \in 1..Len(shown.table) : InRange(shown.table[i])
  /\ shown.final # <<>> =>
       InRange([a_volume |-> shown.final[1], b_volume |-> shown.final[2]])

\* A noisy first round whose gain would take A above its capacity.
C1_Witness ==
  /\ Len(history) >= 1
  /\ steps[1].flags.apply_noise
  /\ widgets.initial_a + history[1].net_a_gain > a_max_capacity
  /\ history[1].a_volume = a_max_capacity

\* The configuration did not change during the interactive run.
FixedConfig ==
  \A i \in 1..Len(steps) :
    /\ steps[i].flags = steps[1].flags
    /\ steps[i].a_strategy = steps[1].a_strategy
    /\ steps[i].b_strategy = steps[1].b_strategy

\* The batch run on the configuration and the draws of the interactive run.
BatchOfSteps ==
  run_simulation(
    set_strategies(NewSimulation(widgets.initial_a, widgets.initial_b, widgets.rounds),
                   steps[1].a_strategy, steps[1].b_strategy),
    steps[1].flags, [i \in 1..Len(steps) |-> steps[i].draws])

\* C2: a completed interactive run whose configuration stayed fixed has the
\* history and the final volumes that one run_simulation call computes from
\* the same configuration and the same random draws.
C2_BatchStepwiseEquivalence ==
  (sim # NoSim /\ run_complete /\ FixedConfig) =>
    /\ ~BatchOfSteps.raised
    /\ BatchOfSteps.obj.history = history
    /\ BatchOfSteps.obj.a_volume = sim.a_volume
    /\ BatchOfSteps.obj.b_volume = sim.b_volume

\* A completed two-round run with a Random player and noise.
C2_Witness ==
  /\ sim # NoSim /\ run_complete /\ FixedConfig
  /\ Len(history) = 2
  /\ steps[1].flags.apply_noise
  /\ steps[1].a_strategy = "Random"
  /\ steps[1].b_strategy = "TitForTat - Cooperate"

\* C3: a click on Advance Next Round once current_round = rounds changes
\* nothing: not the history, the volumes, current_round, the last moves,
\* nor the ledger.
C3_NoAdvancePastEnd ==
  [][(AtEnd /\ AdvanceClicked) =>
       UNCHANGED <<sim, current_round, history, a_last_move, b_last_move,
                   run_complete, runs>>]_vars

\* Advance Next Round was clicked on a complete run.
C3_Witness ==
  /\ AtEnd /\ run_complete
  /\ button = "Advance Next Round"
  /\ shown = Blank
  /\ Len(runs) >= 1

\* C4: a click on Advance Next Round once current_round = rounds is answered
\* with an explicit failure, never with a silent no-op.
C4_RunCompleteSurfaced ==
  [][(AtEnd /\ AdvanceClicked) => shown'.kind = "exception"]_vars

IsTitForTat(strategy) == strategy \in {"TitForTat - Cooperate", "TFT - Defect"}

FirstMove(strategy) ==
  IF strategy = "TitForTat - Cooperate" THEN "Cooperate" ELSE "Defect"

\* Round k of table obeys the tit-for-tat rule for the strategies in force.
TitForTatRule(table, k, a_strategy, b_strategy) ==
  /\ IsTitForTat(a_strategy) =>
       table[k].a_move = IF k = 1 THEN FirstMove(a_strategy) ELSE table[k - 1].b_move
  /\ IsTitForTat(b_strategy) =>
       table[k].b_move = IF k = 1 THEN FirstMove(b_strategy) ELSE table[k - 1].a_move

\* C5: in round 1 a tit-for-tat actor plays its fixed opening move; in every
\* later round it plays the move the other actor played in the round before,
\* in an interactive run (with the strategy in force at that round) and in
\* the history a batch run shows.
C5_FirstRoundRule ==
  /\ \A k \in 1..Len(history) :
       TitForTatRule(history, k, steps[k].a_strategy, steps[k].b_strategy)
  /\ button = "Run Simulation" =>
       \A k \in 1..Len(shown.table) :
         TitForTatRule(shown.table, k, widgets.a_strat, widgets.b_strat)

\* A switches to tit-for-tat after round 1 and mirrors B's round-1 move,
\* which is neither its own round-1 move nor B's round-2 move.
C5_Witness ==
  /\ Len(history) = 2
  /\ ~IsTitForTat(steps[1].a_strategy)
  /\ IsTitForTat(steps[2].a_strategy)
  /\ history[2].a_move = history[1].b_move
  /\ history[1].b_move # history[1].a_move
  /\ history[2].b_move # history[2].a_move

Deterministic(e) ==
  /\ e.a_strategy \in StrategyChoices \ {"Random"}
  /\ e.b_strategy \in StrategyChoices \ {"Random"}
  /\ ~e.flags.apply_noise

\* C6: any two run_simulation calls on the same object with the same
\* configuration, no Random strategy and no noise return the same history.
C6_RepeatedRunsIdentical ==
  \A i, j \in 1..Len(runlog) :
    (/\ Deterministic(runlog[i])
     /\ runlog[i].flags = runlog[j].flags
     /\ runlog[i].a_strategy = runlog[j].a_strategy
     /\ runlog[i].b_strategy = runlog[j].b_strategy)
    => runlog[i].history = runlog[j].history

\* C7: a run_simulation call that has to resolve an unrecognized strategy
\* name raises; it appends no record and changes neither volume.
C7_InvalidStrategyRaises ==
  /\ \A i \in 1..Len(runlog) :
       (/\ runlog[i].rounds >= 1
        /\ \/ runlog[i].a_strategy \notin StrategyChoices
           \/ runlog[i].b_strategy \notin StrategyChoices)
       => /\ runlog[i].raised
          /\ runlog[i].history = <<>>
          /\ runlog[i].after_a = runlog[i].before_a
          /\ runlog[i].after_b = runlog[i].before_b
  /\ ret.kind = "returned" =>
       \/ eng.rounds = 0
       \/ eng.a_strategy \in StrategyChoices /\ eng.b_strategy \in StrategyChoices

\* A's strategy is valid, B's is not: the call raised.
C7_Witness ==
  /\ runlog # <<>>
  /\ Last(runlog).a_strategy = "Random"
  /\ Last(runlog).b_strategy = "Unknown"
  /\ Last(runlog).rounds = 2
  /\ ret.kind = "raised"

\* C8: no TerminalSimulation object exists with rounds < 1.
C8_RoundsAtLeastOne == eng # NoSim => eng.rounds >= 1

HistoryWellFormed ==
  sim # NoSim =>
    /\ Len(history) = current_round
    /\ current_round <= sim.rounds
    /\ \A i \in 1..Len(history) : history[i].round = i

\* C9: the history is empty right after the interactive run is started or
\* reset; its length is current_round, at most rounds; its i-th record has
\* round i; an advance click leaves it alone or appends one record to it,
\* and a click that shows a new round has appended exactly one.
C9_HistoryGrowth ==
  [][/\ HistoryWellFormed'
     /\ StartedInteractive => (history' = <<>> /\ current_round' = 0)
     /\ AdvanceClicked =>
          \/ history' = history /\ shown'.kind # "history"
          \/ /\ Len(history') = Len(history) + 1
             /\ SubSeq(history', 1, Len(history)) = history
             /\ shown'.kind = "history"
     /\ (button' = "Run Simulation" /\ clicks' = clicks + 1) =>
          \A i \in 1..Len(shown'.table) : shown'.table[i].round = i]_vars

\* Two rounds have been recorded.
C9_Witness ==
  /\ sim # NoSim
  /\ Len(history) = 2
  /\ current_round = 2
  /\ button = "Advance Next Round"

\* The moves a strategy may play given the other actor's last move.
ExpectedMoves(strategy, other_last_move, round) ==
  CASE strategy = "AlwaysCooperate" -> {"Cooperate"}
    [] strategy = "AlwaysDefect" -> {"Defect"}
    [] strategy = "Random" -> Moves
    [] IsTitForTat(strategy) ->
         IF round = 0 THEN {FirstMove(strategy)} ELSE {other_last_move}

\* C10: Apply Mid-Sim Changes sets the run's two strategies to the selected
\* ones and changes nothing else (history, volumes, current_round, last
\* moves); an advance resolves its moves with the strategies the run holds
\* at that moment.
C10_SetStrategiesFrame ==
  [][/\ ApplyClicked =>
          /\ sim'.a_strategy = applied'[1]
          /\ sim'.b_strategy = applied'[2]
          /\ sim'.a_volume = sim.a_volume
          /\ sim'.b_volume = sim.b_volume
          /\ sim'.rounds = sim.rounds
          /\ UNCHANGED <<history, current_round, a_last_move, b_last_move,
                         run_complete, runs>>
     /\ (AdvanceClicked /\ Len(history') = Len(history) + 1) =>
          /\ Last(history').a_move
               \in ExpectedMoves(sim.a_strategy, b_last_move, current_round)
          /\ Last(history').b_move
               \in ExpectedMoves(sim.b_strategy, a_last_move, current_round)]_vars

\* The strategies were changed after round 1 and round 2 was played with
\* the new ones.
C10_Witness ==
  /\ Len(history) = 2
  /\ steps[2].a_strategy = "AlwaysDefect"
  /\ steps[1].a_strategy = "AlwaysCooperate"
  /\ steps[2].b_strategy = "TFT - Defect"
  /\ steps[1].b_strategy = "AlwaysCooperate"
  /\ history[2].a_move = "Defect"
  /\ history[2].b_move = "Cooperate"

\* C11: current_round never exceeds rounds and the run is complete exactly
\* when current_round = rounds; a complete run stays complete with the same
\* state until the interactive mode is reset; a start or reset leaves
\* current_round = 0, an empty history, both last moves undefined, the run
\* not complete and the volumes at the values of the two number inputs.
C11_RunLifecycle ==
  [][/\ sim' # NoSim =>
          /\ current_round' <= sim'.rounds
          /\ run_complete' <=> (current_round' = sim'.rounds)
     /\ (AtEnd /\ ~StartedInteractive) =>
          /\ current_round' = sim'.rounds
          /\ run_complete'
          /\ UNCHANGED <<sim, history>>
     /\ StartedInteractive =>
          /\ current_round' = 0
          /\ history' = <<>>
          /\ a_last_move' = None
          /\ b_last_move' = None
          /\ ~run_complete'
          /\ sim'.a_volume = widgets'.initial_a
          /\ sim'.b_volume = widgets'.initial_b
          /\ sim'.rounds = widgets'.rounds]_vars

\* A complete run (its ledger entry is there) has just been reset.
C11_Witness ==
  /\ sim # NoSim
  /\ button = "Reset Interactive Mode"
  /\ Len(runs) >= 1
  /\ current_round = 0
  /\ ~run_complete

\* C12: every round of an interactive run was played with the modifier
\* settings of the run's first round.
C12_FlagsFixedWithinRun ==
  \A i \in 1..Len(steps) : steps[i].flags = steps[1].flags

RoundCalled == ret.kind = "round"

\* By how much A's volume plus its net gain exceeds A's capacity in the call.
RoundExcess == (ret.before_a + ret.net_a_gain) - a_max_capacity

BothCooperate == ret.a_move = "Cooperate" /\ ret.b_move = "Cooperate"

\* C13: in a round where A's volume plus its net gain exceeds A's capacity
\* by excess > 0, A ends at its capacity; B ends at its volume plus
\* floor(excess / 2) plus its net gain if both moves are Cooperate, and at
\* its volume plus its net gain otherwise, clamped to 0..75000.
C13_Spillover ==
  (RoundCalled /\ RoundExcess > 0) =>
    /\ ret.after_a = a_max_capacity
    /\ ret.after_b =
         Min2(b_max_capacity,
              Max2(0, ret.before_b + ret.net_b_gain
                        + (IF BothCooperate THEN RoundExcess \div 2 ELSE 0)))

\* Mutual cooperation with an odd excess: B received the half rounded down.
C13_Witness ==
  /\ RoundCalled /\ BothCooperate
  /\ RoundExcess > 0 /\ RoundExcess % 2 = 1
  /\ ret.after_a = a_max_capacity
  /\ ret.after_b = ret.before_b + ret.net_b_gain + (RoundExcess - 1) \div 2
  /\ ret.after_b < b_max_capacity

\* The noise a call added to a gain (none when noise is disabled).
NoiseOf(noise) == IF ret.flags.apply_noise THEN noise ELSE 0

\* C14: in every round A's net gain is its raw gain plus its noise, minus 300
\* unless congestion is resolved, minus 200 unless the coastal contract is
\* dropped; B's net gain is its raw gain plus its noise, whatever the two
\* penalty flags are.  One Cooperate/Cooperate round from (50000, 20000) with
\* both penalties active and nothing else gives (52000, 21000).
C14_PenaltiesOnAOnly ==
  RoundCalled =>
    /\ ret.net_a_gain * Scale =
         ret.raw_a_gain
         + Scale * (NoiseOf(ret.noise_a)
                    - (IF ret.flags.resolve_congestion THEN 0 ELSE 300)
                    - (IF ret.flags.drop_coastal THEN 0 ELSE 200))
    /\ ret.net_b_gain * Scale = ret.raw_b_gain + Scale * NoiseOf(ret.noise_b)
    /\ (/\ ret.flags = Flags(FALSE, FALSE, FALSE, FALSE, FALSE)
        /\ BothCooperate
        /\ ret.before_a = 50000 /\ ret.before_b = 20000)
       => (ret.after_a = 52000 /\ ret.after_b = 21000)

\* Both penalties active, no noise: A's net gain is 500 below its raw gain,
\* B's net gain is its raw gain.
C14_Witness ==
  /\ RoundCalled /\ BothCooperate
  /\ ret.flags = Flags(FALSE, FALSE, FALSE, FALSE, FALSE)
  /\ ret.before_a = 50000 /\ ret.before_b = 20000
  /\ ret.net_a_gain = 2000 /\ ret.net_b_gain = 1000
  /\ ret.after_a = 52000 /\ ret.after_b = 21000

\* The payoff table of the case: (gain of A, gain of B) per move pair.
PayoffTable(a_move, b_move) ==
  CASE a_move = "Cooperate" /\ b_move = "Cooperate" -> <<2500, 1000>>
    [] a_move = "Cooperate" /\ b_move = "Defect" -> <<-5000, 10000>>
    [] a_move = "Defect" /\ b_move = "Cooperate" -> <<10000, -5000>>
    [] a_move = "Defect" /\ b_move = "Defect" -> <<-2000, -2000>>

\* A payoff after the transforms of the call, in tenths: times 0.5 under
\* Bertrand pricing, then times 1.10 under berth pooling if both cooperate.
TransformedPayoff(p) ==
  LET halved == IF ret.flags.bertrand_mode THEN p * 5 ELSE p * 10
  IN  IF ret.flags.berth_pooling /\ BothCooperate
        THEN (halved * 11) \div 10
        ELSE halved

\* C15: the raw gains a round returns are the payoff-table entry of its move
\* pair, times 0.5 iff Bertrand mode is on, times 1.10 iff berth pooling is
\* on and both moves are Cooperate, and nothing else (pooling without mutual
\* cooperation, penalties and noise leave them alone); raw and net gains are
\* whole numbers for every move pair and flag setting.
C15_RawGainTransforms ==
  RoundCalled =>
    /\ ret.raw_a_gain = TransformedPayoff(PayoffTable(ret.a_move, ret.b_move)[1])
    /\ ret.raw_b_gain = TransformedPayoff(PayoffTable(ret.a_move, ret.b_move)[2])
    /\ ret.raw_a_gain % Scale = 0
    /\ ret.raw_b_gain % Scale = 0
    /\ (ret.net_a_gain * Scale - ret.raw_a_gain) % Scale = 0
    /\ (ret.net_b_gain * Scale - ret.raw_b_gain) % Scale = 0

\* Both transforms applied to a mutual cooperation: 1375.0 and 550.0.
C15_Witness ==
  /\ RoundCalled /\ BothCooperate
  /\ ret.flags.bertrand_mode /\ ret.flags.berth_pooling
  /\ ret.raw_a_gain = 13750
  /\ ret.raw_b_gain = 5500

\* No penalty, no noise, no Bertrand pricing, no berth pooling.
NoModifiers == Flags(TRUE, TRUE, FALSE, FALSE, FALSE)

\* The volumes before round k of a logged run_simulation call.
VolumesBefore(e, k) ==
  IF k = 1 THEN <<e.before_a, e.before_b>>
           ELSE <<e.history[k - 1].a_volume, e.history[k - 1].b_volume>>

\* Round k of the logged call e gained exactly the payoff-table entry, and
\* added it to both volumes unless a clamp was triggered.
PlainRound(e, k) ==
  LET rec == e.history[k]
      p == PayoffTable(rec.a_move, rec.b_move)
      was == VolumesBefore(e, k)
  IN  /\ rec.raw_a_gain = p[1] * Scale /\ rec.raw_b_gain = p[2] * Scale
      /\ rec.net_a_gain = p[1] /\ rec.net_b_gain = p[2]
      /\ (/\ 0 <= was[1] + p[1] /\ was[1] + p[1] <= a_max_capacity
          /\ 0 <= was[2] + p[2] /\ was[2] + p[2] <= b_max_capacity)
         => (rec.a_volume = was[1] + p[1] /\ rec.b_volume = was[2] + p[2])

\* The logged call e is a 1-round run from (50000, 20000) of the two strategies.
OneRoundFromDefaults(e, a_strategy, b_strategy) ==
  /\ e.flags = NoModifiers
  /\ e.rounds = 1
  /\ e.before_a = 50000 /\ e.before_b = 20000
  /\ e.a_strategy = a_strategy /\ e.b_strategy = b_strategy

\* C16: with no modifier active every round's raw and net gains are the
\* payoff-table entry of its moves and, unless a clamp is triggered, each
\* volume grows by exactly its net gain.  A 1-round run from (50000, 20000)
\* of AlwaysCooperate against AlwaysCooperate records (Cooperate, Cooperate),
\* raw = net = (2500, 1000), and ends at (52500, 21000); against AlwaysDefect
\* it records (Cooperate, Defect), raw (-5000, 10000), and ends at
\* (45000, 30000).
C16_PlainPayoffs ==
  \A i \in 1..Len(runlog) :
    LET e == runlog[i]
    IN  /\ (e.flags = NoModifiers /\ ~e.raised) =>
             \A k \in 1..Len(e.history) : PlainRound(e, k)
        /\ OneRoundFromDefaults(e, "AlwaysCooperate", "AlwaysCooperate") =>
             /\ e.history =
                  <<[round |-> 1, a_move |-> "Cooperate", b_move |-> "Cooperate",
                     raw_a_gain |-> 2500 * Scale, raw_b_gain |-> 1000 * Scale,
                     net_a_gain |-> 2500, net_b_gain |-> 1000,
                     a_volume |-> 52500, b_volume |-> 21000]>>
             /\ e.after_a = 52500 /\ e.after_b = 21000
        /\ OneRoundFromDefaults(e, "AlwaysCooperate", "AlwaysDefect") =>
             /\ e.history =
                  <<[round |-> 1, a_move |-> "Cooperate", b_move |-> "Defect",
                     raw_a_gain |-> (-5000) * Scale, raw_b_gain |-> 10000 * Scale,
                     net_a_gain |-> -5000, net_b_gain |-> 10000,
                     a_volume |-> 45000, b_volume |-> 30000]>>
             /\ e.after_a = 45000 /\ e.after_b = 30000

\* The AlwaysCooperate against AlwaysDefect run has been made.
C16_Witness ==
  /\ runlog # <<>>
  /\ OneRoundFromDefaults(Last(runlog), "AlwaysCooperate", "AlwaysDefect")
  /\ ~Last(runlog).raised
  /\ Last(runlog).after_a = 45000 /\ Last(runlog).after_b = 30000

\* This step takes a run to completion: a batch run that returned, or the
\* advance that plays the last round of the interactive run.
RunCompletes ==
  \/ clicks' = clicks + 1 /\ button' = "Run Simulation" /\ shown'.kind = "history"
  \/ AdvanceClicked /\ ~run_complete /\ run_complete'

LedgerAppended ==
  /\ Len(runs') = Len(runs) + 1
  /\ SubSeq(runs', 1, Len(runs)) = runs

\* C17: every step leaves the comparison ledger as it is, appends one entry
\* at its end, or clears it in full; an entry is appended exactly by the
\* steps that take a run to completion, and only Reset Runs clears it.
C17_LedgerAppendOnly ==
  [][/\ runs' = runs \/ LedgerAppended \/ runs' = <<>>
     /\ RunCompletes <=> LedgerAppended
     /\ (runs' = <<>> /\ runs # <<>>) =>
          (clicks' = clicks + 1 /\ button' = "Reset Runs")]_vars

\* Two interactive runs have completed, with a reset in between: two entries.
C17_Witness ==
  /\ Interactive
  /\ sim # NoSim /\ run_complete
  /\ button = "Advance Next Round"
  /\ Len(runs) = 2

\* The record holds two moves of the Move enum and gains looked up in the
\* payoff table (the (0, 0) fallback of the lookup was not used).
ProperMoves(rec) ==
  /\ rec.a_move \in Moves
  /\ rec.b_move \in Moves
  /\ rec.raw_a_gain # 0
  /\ rec.raw_b_gain # 0

\* C18: every move passed to the round engine and recorded, in the
\* interactive history and in the history a batch run shows, is Cooperate or
\* Defect, never the undefined initial last move, so the payoff lookup never
\* falls back to (0, 0); once a round is played both last moves are defined.
C18_MovesAreMoves ==
  /\ \A k \in 1..Len(history) : ProperMoves(history[k])
  /\ \A k \in 1..Len(shown.table) : ProperMoves(shown.table[k])
  /\ (sim # NoSim /\ current_round >= 1) =>
       (a_last_move \in Moves /\ b_last_move \in Moves)

\* Two tit-for-tat players in round 2: each replays the other's opening move.
C18_Witness ==
  /\ Len(history) = 2
  /\ steps[2].a_strategy = "TitForTat - Cooperate"
  /\ steps[2].b_strategy = "TFT - Defect"
  /\ history[1].a_move = "Cooperate" /\ history[1].b_move = "Defect"
  /\ history[2].a_move = "Defect" /\ history[2].b_move = "Cooperate"
  /\ ProperMoves(history[2])

\* A's recorded volumes are chained: each is the one before it (the number
\* input's value for round 1) plus the round's net gain, clamped to 0..60000.
ChainedA(table) ==
  \A k \in 1..Len(table) :
    table[k].a_volume =
      Min2(a_max_capacity,
           Max2(0, (IF k = 1 THEN widgets.initial_a ELSE table[k - 1].a_volume)
                     + table[k].net_a_gain))

\* C19: the volumes of the last record are the actors' current volumes (the
\* final volumes shown, for a batch run), and A's recorded volume of round k is
\* its recorded volume of round k-1 (the configured initial volume for round
\* 1) plus its net gain of round k, clamped to 0..60000.
C19_RecordStateConsistency ==
  /\ (sim # NoSim /\ history # <<>>) =>
       /\ Last(history).a_volume = sim.a_volume
       /\ Last(history).b_volume = sim.b_volume
  /\ sim # NoSim => ChainedA(history)
  /\ (shown.kind = "history" /\ shown.final # <<>>) =>
       shown.final = <<Last(shown.table).a_volume, Last(shown.table).b_volume>>
  /\ ChainedA(shown.table)

\* A two-round batch run whose second round moved A's volume without a clamp.
C19_Witness ==
  /\ button = "Run Simulation"
  /\ Len(shown.table) = 2
  /\ shown.table[2].net_a_gain # 0
  /\ shown.table[2].a_volume = shown.table[1].a_volume + shown.table[2].net_a_gain
  /\ shown.final = <<shown.table[2].a_volume, shown.table[2].b_volume>>

\* The interactive run is complete: all its rounds are played and recorded.
Complete ==
  /\ sim # NoSim
  /\ run_complete
  /\ current_round = sim.rounds
  /\ Len(history) = sim.rounds

\* C20: a batch run returns a history of exactly `rounds` records; an
\* interactive run on which Advance Next Round keeps being clicked, without
\* a reset, eventually is complete with current_round = rounds.
C20_Termination ==
  /\ [](button = "Run Simulation" =>
          (shown.kind = "history" /\ Len(shown.table) = widgets.rounds))
  /\ [](sim # NoSim => <>Complete)

\* A two-round interactive run has been advanced to its end.
C20_Witness ==
  /\ Interactive
  /\ Complete
  /\ sim.rounds = 2
  /\ clicks = 2

\* This step plays the last round of the interactive run.
InteractiveRunCompletes == AdvanceClicked /\ ~run_complete /\ run_complete'

\* C21: the ledger entry appended when an interactive run completes names
\* the strategies the run held when its last round was resolved.
C21_LedgerNamesRunStrategies ==
  [][InteractiveRunCompletes =>
       /\ Last(runs').a_strategy = sim.a_strategy
       /\ Last(runs').b_strategy = sim.b_strategy]_vars

\* The moves of every round of table follow the pattern of the strategy pair.
TitForTatPattern(table, a_strategy, b_strategy) ==
  \A k \in 1..Len(table) :
    /\ (a_strategy = "TitForTat - Cooperate" /\ b_strategy = "TitForTat - Cooperate")
       => (table[k].a_move = "Cooperate" /\ table[k].b_move = "Cooperate")
    /\ (a_strategy = "TFT - Defect" /\ b_strategy = "TFT - Defect")
       => (table[k].a_move = "Defect" /\ table[k].b_move = "Defect")
    /\ (a_strategy = "TitForTat - Cooperate" /\ b_strategy = "TFT - Defect")
       => /\ table[k].a_move = (IF k % 2 = 1 THEN "Cooperate" ELSE "Defect")
          /\ table[k].b_move = (IF k % 2 = 1 THEN "Defect" ELSE "Cooperate")
          /\ table[k].a_move # table[k].b_move

\* The interactive run has played all its rounds with one strategy pair.
FixedStrategies ==
  \A i \in 1..Len(steps) :
    /\ steps[i].a_strategy = steps[1].a_strategy
    /\ steps[i].b_strategy = steps[1].b_strategy

\* C22: with fixed strategies and any modifier flags, two TitForTat -
\* Cooperate players cooperate in every round, two TFT - Defect players
\* defect in every round, and TitForTat - Cooperate (A) against TFT - Defect
\* (B) plays (Cooperate, Defect) in odd rounds and (Defect, Cooperate) in even
\* rounds; in a batch run and in an interactive run.
C22_TitForTatPatterns ==
  /\ button = "Run Simulation" =>
       TitForTatPattern(shown.table, widgets.a_strat, widgets.b_strat)
  /\ (history # <<>> /\ FixedStrategies) =>
       TitForTatPattern(history, steps[1].a_strategy, steps[1].b_strategy)

\* A two-round batch run of TitForTat - Cooperate against TFT - Defect.
C22_Witness ==
  /\ button = "Run Simulation"
  /\ widgets.a_strat = "TitForTat - Cooperate"
  /\ widgets.b_strat = "TFT - Defect"
  /\ Len(shown.table) = 2
  /\ shown.table[1].a_move = "Cooperate" /\ shown.table[1].b_move = "Defect"
  /\ shown.table[2].a_move = "Defect" /\ shown.table[2].b_move = "Cooperate"

====
